---------------------------- MODULE Spec2Model ----------------------------
(***************************************************************************)
(* A model of hkvdb: a key-value store over RocksDB that aggregates        *)
(* time-stamped observations per (id, label) with a merge operator, and a  *)
(* secondary index from labels to sets of ids.                             *)
(*                                                                         *)
(* Byte strings are sequences of numbers in 0..255.  An Option<T> is a     *)
(* sequence of length 0 (None) or 1 (Some).                                *)
(***************************************************************************)
EXTENDS Integers, Sequences, FiniteSets, TLC

VARIABLES
    V,        \* the type parameter of Hkvdb<V>: "Range32" or "Set32"
    db,       \* the RocksDB handle: the column families "by_id" and "index"
    written,  \* history: the (id, label, value) triples handed to put so far
    indexed,  \* history: per case policy, how make_index has run: never, fresh, ran
    nwrites,  \* history: the number of operands put so far
    nindex,   \* history: the number of calls of make_index so far
    lastBatch, \* history: the number of entries the last call that wrote was given
    alg       \* the operands and results of one evaluation of the value algebra,
              \* or what the last read of the store returned

vars == <<V, db, written, indexed, nwrites, nindex, lastBatch, alg>>

----------------------------------------------------------------------------
(* Bounds of the model. *)

\* the number of merge operands written to the primary namespace in one run
MaxWrites == 3

\* the longest batch handed to put_raw_batch / put_batch
MaxBatch == 2

\* the longest sequence of numbers taken as an operand of the set algebras
MaxSetLen == 2

\* the number of calls of make_index in one run
MaxIndexRuns == 2

\* the number of entries put in one run of the store with its index
MaxIndexedWrites == 2

----------------------------------------------------------------------------
(* Options and results. *)

None == <<>>

Some(x) == <<x>>

Ok(v) == [ok |-> TRUE, val |-> v, err |-> "none"]

Err(e) == [ok |-> FALSE, val |-> <<>>, err |-> e]

Min(a, b) == IF a <= b THEN a ELSE b

Max(a, b) == IF a >= b THEN a ELSE b

----------------------------------------------------------------------------
(* Big-endian integers. *)

\* the width in bytes of a u32
Width32 == 4

\* the width in bytes of a u64, which is also the width of the id field of a key
Width64 == 8

\* u32::to_be_bytes / u64::to_be_bytes: w bytes, the most significant first
RECURSIVE to_be_bytes(_, _)
to_be_bytes(n, w) ==
    IF w = 0 THEN <<>> ELSE to_be_bytes(n \div 256, w - 1) \o <<n % 256>>

\* u32::from_be_bytes / u64::from_be_bytes of the slice bytes[from..to], 1-based
\* and inclusive
RECURSIVE FromBe(_, _, _)
FromBe(bytes, from, to) ==
    IF to < from THEN 0 ELSE 256 * FromBe(bytes, from, to - 1) + bytes[to]

----------------------------------------------------------------------------
(* slice::sort_unstable and Vec::dedup. *)

RECURSIVE Insert(_, _)
Insert(x, sorted) ==
    IF sorted = <<>> THEN <<x>>
    ELSE IF x <= Head(sorted) THEN <<x>> \o sorted
    ELSE <<Head(sorted)>> \o Insert(x, Tail(sorted))

RECURSIVE sort_unstable(_)
sort_unstable(values) ==
    IF values = <<>> THEN <<>>
    ELSE Insert(Head(values), sort_unstable(Tail(values)))

\* Vec::dedup removes consecutive repeated elements
RECURSIVE dedup(_)
dedup(values) ==
    IF Len(values) <= 1 THEN values
    ELSE IF values[1] = values[2] THEN dedup(Tail(values))
    ELSE <<values[1]>> \o dedup(Tail(values))

----------------------------------------------------------------------------
(* Range32: a record [first, last]. *)

Range32New(first, last) == [first |-> first, last |-> last]

Range32Singleton(value) == Range32New(value, value)

Range32AddLastWins(self, other) == Range32New(Min(self.first, other.first), other.last)

Range32Add(self, other) ==
    Range32New(Min(self.first, other.first), Max(self.last, other.last))

\* the two fields written in the opposite order
Range32IntoLastFirst(input) ==
    to_be_bytes(input.last, Width32) \o to_be_bytes(input.first, Width32)

Range32Into(input) ==
    to_be_bytes(input.first, Width32) \o to_be_bytes(input.last, Width32)

Range32TryFrom(bytes) ==
    IF Len(bytes) = 8
    THEN Ok(Range32New(FromBe(bytes, 1, 4), FromBe(bytes, 5, 8)))
    ELSE Err("InvalidValue")

----------------------------------------------------------------------------
(* Set32 and Set64: the sequence `values`. *)

\* the slice kept as it is given
Set32NewAsGiven(values) == values

Set32New(values) == dedup(sort_unstable(values))

Set32Singleton(value) == Set32New(<<value>>)

Set32AddNoSort(self, other) == dedup(self \o other)

Set32AddNoDedup(self, other) == sort_unstable(self \o other)

Set32Add(self, other) == dedup(sort_unstable(self \o other))

RECURSIVE SetInto(_, _)
SetInto(values, w) ==
    IF values = <<>> THEN <<>>
    ELSE to_be_bytes(Head(values), w) \o SetInto(Tail(values), w)

\* the numbers of the chunks bytes[i * w..i * w + w] of a byte string
Chunks(bytes, w) ==
    [i \in 1..(Len(bytes) \div w) |-> FromBe(bytes, (i - 1) * w + 1, i * w)]

Set32Into(input) == SetInto(input, Width32)

Set32TryFrom(bytes) ==
    IF Len(bytes) % 4 = 0 THEN Ok(Chunks(bytes, 4)) ELSE Err("InvalidValue")

Set64New(values) == dedup(sort_unstable(values))

Set64Singleton(value) == Set64New(<<value>>)

Set64AddNoDedup(self, other) == sort_unstable(self \o other)

Set64Add(self, other) == dedup(sort_unstable(self \o other))

Set64Into(input) == SetInto(input, Width64)

\* no check of the length: the bytes that do not fill a chunk are dropped
Set64TryFromAnyLength(bytes) == Ok(Chunks(bytes, 8))

Set64TryFrom(bytes) ==
    IF Len(bytes) % 8 = 0 THEN Ok(Chunks(bytes, 8)) ELSE Err("InvalidValue")

----------------------------------------------------------------------------
(* The trait Value, by the name T of the implementing type. *)

prepare(T, bytes) ==
    CASE T = "Range32" -> Range32TryFrom(bytes)
      [] T = "Set32" -> Set32TryFrom(bytes)
      [] T = "Set64" -> Set64TryFrom(bytes)

add(T, self, other) ==
    CASE T = "Range32" -> Range32Add(self, other)
      [] T = "Set32" -> Set32Add(self, other)
      [] T = "Set64" -> Set64Add(self, other)

into(T, input) ==
    CASE T = "Range32" -> Range32Into(input)
      [] T = "Set32" -> Set32Into(input)
      [] T = "Set64" -> Set64Into(input)

\* Set32::singleton / Set64::singleton
singleton(T, value) ==
    CASE T = "Set32" -> Set32Singleton(value)
      [] T = "Set64" -> Set64Singleton(value)

\* Option::map(Self::into)
MapInto(T, aggregated) ==
    IF Len(aggregated) = 0 THEN None ELSE Some(into(T, aggregated[1]))

\* the for loop of Value::merge, from the operands `rest` on
RECURSIVE MergeLoop(_, _, _)
MergeLoop(T, aggregated, rest) ==
    IF rest = <<>> THEN [ok |-> TRUE, out |-> MapInto(T, aggregated), err |-> "none"]
    ELSE LET prepared == prepare(T, Head(rest))
         IN  IF ~prepared.ok
             THEN [ok |-> FALSE, out |-> MapInto(T, aggregated), err |-> prepared.err]
             ELSE MergeLoop(T,
                            IF Len(aggregated) = 0 THEN Some(prepared.val)
                            ELSE Some(add(T, aggregated[1], prepared.val)),
                            Tail(rest))

\* Value::merge: `out` is the value of Ok, or the fallback that comes with the error
merge(T, existing, new_values) ==
    LET first == IF Len(existing) = 0 THEN Ok(None)
                 ELSE LET p == prepare(T, existing[1])
                      IN  IF p.ok THEN Ok(Some(p.val)) ELSE p
    IN  IF ~first.ok
        THEN [ok |-> FALSE,
              out |-> IF new_values = <<>> THEN None
                      ELSE Some(new_values[Len(new_values)]),
              err |-> first.err]
        ELSE MergeLoop(T, first.val, new_values)

----------------------------------------------------------------------------
(* Keys of the two column families. *)

Sensitive == "Sensitive"

Insensitive == "Insensitive"

make_prefix(id) == to_be_bytes(id, Width64)

make_key(id, value) == to_be_bytes(id, Width64) \o value

\* u64::from_be_bytes(key[0..8].try_into().map_err(InvalidKey)): the slice key[0..8]
\* is out of range, and the thread panics, when the key has fewer than 8 bytes;
\* a slice that exists has 8 bytes, so that try_into never fails
DecodeId(key) ==
    IF Len(key) < 8 THEN Err("panic") ELSE Ok(FromBe(key, 1, 8))

\* key[8..]
KeyData(key) == SubSeq(key, 9, Len(key))

\* std::str::from_utf8 succeeds. The labels of this model are made of ASCII
\* bytes and of the byte 0xFF, which no UTF-8 string contains.
IsUtf8(bytes) == \A i \in 1..Len(bytes) : bytes[i] < 128

\* str::to_lowercase, on ASCII strings
to_lowercase(s) == [i \in 1..Len(s) |-> IF s[i] \in 65..90 THEN s[i] + 32 ELSE s[i]]

\* the bytes taken as they are under either policy
make_index_key_verbatim(data, case_sensitivity) ==
    IF case_sensitivity = Insensitive
    THEN IF IsUtf8(data) THEN Ok(data) ELSE Err("InvalidUtf8")
    ELSE Ok(data)

make_index_key(data, case_sensitivity) ==
    IF case_sensitivity = Insensitive
    THEN IF IsUtf8(data) THEN Ok(to_lowercase(data)) ELSE Err("InvalidUtf8")
    ELSE Ok(data)

----------------------------------------------------------------------------
(* The merge operators registered with the two column families. *)

\* the newest operand taken as the merged value
merge_by_id_newest(key, existing_value, operands) ==
    IF operands = <<>> THEN existing_value ELSE Some(operands[Len(operands)])

merge_by_id(key, existing_value, operands) == merge(V, existing_value, operands).out

\* the newest operand taken as the merged value
merge_index_last(key, existing_value, operands) ==
    IF operands = <<>> THEN existing_value ELSE Some(operands[Len(operands)])

merge_index(key, existing_value, operands) == merge("Set64", existing_value, operands).out

merge_operator(cf, key, existing_value, operands) ==
    IF cf = "by_id" THEN merge_by_id(key, existing_value, operands)
    ELSE merge_index(key, existing_value, operands)

----------------------------------------------------------------------------
(* RocksDB, as far as the store uses it.  A column family maps each key it *)
(* holds to the value below its pending merge operands (base, an option)   *)
(* and the operands not merged yet, oldest first (ops).                    *)

EmptyDb == [by_id |-> <<>>, index |-> <<>>]

CfKeys(d, cf) == DOMAIN d[cf]

\* a put_cf in the place of merge_cf: the operand replaces what the key held
merge_cf_overwrite(d, cf, key, operand) ==
    [d EXCEPT ![cf] = (key :> [base |-> None, ops |-> <<operand>>]) @@ @]

\* DB::merge_cf: one more operand for the key
merge_cf(d, cf, key, operand) ==
    IF key \in DOMAIN d[cf]
    THEN [d EXCEPT ![cf][key].ops = Append(@, operand)]
    ELSE [d EXCEPT ![cf] = (key :> [base |-> None, ops |-> <<operand>>]) @@ @]

\* DB::get_pinned_cf and the value an iterator shows: a key with pending operands
\* is resolved through the column family's merge operator
CfGet(d, cf, key) ==
    IF key \notin DOMAIN d[cf] THEN None
    ELSE LET e == d[cf][key]
         IN  IF e.ops = <<>> THEN e.base
             ELSE merge_operator(cf, key, e.base, e.ops)

\* the order of the default comparator: bytewise, a proper prefix first
BytesLess(a, b) ==
    \E i \in 1..(Min(Len(a), Len(b)) + 1) :
        /\ \A j \in 1..(i - 1) : a[j] = b[j]
        /\ \/ i > Len(a) /\ i <= Len(b)
           \/ i <= Len(a) /\ i <= Len(b) /\ a[i] < b[i]

RECURSIVE SortKeys(_)
SortKeys(keys) ==
    IF keys = {} THEN <<>>
    ELSE LET least == CHOOSE k \in keys : \A o \in keys : o = k \/ BytesLess(k, o)
         IN  <<least>> \o SortKeys(keys \ {least})

\* IteratorMode::End in the place of IteratorMode::Start: from the last key back
IteratorFromEnd(d, cf) ==
    LET value == [k \in CfKeys(d, cf) |-> CfGet(d, cf, k)]
        keys == SortKeys({k \in CfKeys(d, cf) : Len(value[k]) > 0})
    IN  [i \in 1..Len(keys) |-> <<keys[Len(keys) + 1 - i], value[keys[Len(keys) + 1 - i]][1]>>]

\* DB::iterator_cf(cf, IteratorMode::Start): the (key, value) pairs in key order
Iterator(d, cf) ==
    LET value == [k \in CfKeys(d, cf) |-> CfGet(d, cf, k)]
        keys == SortKeys({k \in CfKeys(d, cf) : Len(value[k]) > 0})
    IN  [i \in 1..Len(keys) |-> <<keys[i], value[keys[i]][1]>>]

\* DB::prefix_iterator_cf(cf, prefix): the iterator from the first key that is
\* not below the prefix
PrefixIterator(d, cf, prefix) ==
    LET all == Iterator(d, cf)
        from == {i \in 1..Len(all) : ~BytesLess(all[i][1], prefix)}
    IN  IF from = {} THEN <<>>
        ELSE SubSeq(all, CHOOSE i \in from : \A j \in from : i <= j, Len(all))

----------------------------------------------------------------------------
(* The primary store API.  A HashMap is a function; the reads are          *)
(* operators of the database d.                                            *)

RECURSIVE GetCountsLoop(_, _, _)
GetCountsLoop(entries, ids, value_count) ==
    IF entries = <<>> THEN Ok(<<Cardinality(ids), value_count>>)
    ELSE LET id == DecodeId(Head(entries)[1])
         IN  IF ~id.ok THEN id
             ELSE GetCountsLoop(Tail(entries), ids \cup {id.val}, value_count + 1)

get_counts_swapped(d) ==
    LET counts == GetCountsLoop(Iterator(d, "by_id"), {}, 0)
    IN  IF counts.ok THEN Ok(<<counts.val[2], counts.val[1]>>) ELSE counts

get_counts(d) == GetCountsLoop(Iterator(d, "by_id"), {}, 0)

RECURSIVE GetRawLoopNoBreak(_, _, _)
GetRawLoopNoBreak(entries, id, result) ==
    IF entries = <<>> THEN Ok(result)
    ELSE LET next_id == DecodeId(Head(entries)[1])
         IN  IF ~next_id.ok THEN next_id
             ELSE LET value == prepare(V, Head(entries)[2])
                  IN  IF ~value.ok THEN value
                      ELSE GetRawLoopNoBreak(Tail(entries), id,
                               (KeyData(Head(entries)[1]) :> value.val) @@ result)

RECURSIVE GetRawLoop(_, _, _)
GetRawLoop(entries, id, result) ==
    IF entries = <<>> THEN Ok(result)
    ELSE LET next_id == DecodeId(Head(entries)[1])
         IN  IF ~next_id.ok THEN next_id
             ELSE IF next_id.val = id
             THEN LET value == prepare(V, Head(entries)[2])
                  IN  IF ~value.ok THEN value
                      ELSE GetRawLoop(Tail(entries), id,
                               (KeyData(Head(entries)[1]) :> value.val) @@ result)
             ELSE Ok(result)

get_raw(d, id) == GetRawLoop(PrefixIterator(d, "by_id", make_prefix(id)), id, <<>>)

\* a String is its UTF-8 bytes
get(d, id) ==
    LET as_bytes == get_raw(d, id)
    IN  IF ~as_bytes.ok THEN as_bytes
        ELSE IF \E k \in DOMAIN as_bytes.val : ~IsUtf8(k) THEN Err("InvalidUtf8")
        ELSE Ok(as_bytes.val)

IterRawItem(entry) ==
    LET id == DecodeId(entry[1])
    IN  IF ~id.ok THEN id
        ELSE LET value == prepare(V, entry[2])
             IN  IF ~value.ok THEN value
                 ELSE Ok(<<id.val, KeyData(entry[1]), value.val>>)

\* an iteration that ends at the first item that is an error
iter_raw_until_error(d) ==
    LET entries == Iterator(d, "by_id")
        items == [i \in 1..Len(entries) |-> IterRawItem(entries[i])]
        bad == {i \in 1..Len(items) : ~items[i].ok}
    IN  IF bad = {} THEN items
        ELSE SubSeq(items, 1, CHOOSE i \in bad : \A j \in bad : i <= j)

iter_raw(d) ==
    LET entries == Iterator(d, "by_id")
    IN  [i \in 1..Len(entries) |-> IterRawItem(entries[i])]

iter(d) ==
    LET items == iter_raw(d)
    IN  [i \in 1..Len(items) |->
            IF items[i].ok /\ ~IsUtf8(items[i].val[2]) THEN Err("InvalidUtf8")
            ELSE items[i]]

\* value.into(): the conversions From<u32>, From<(u32, u32)> and From<&[u32]> into V;
\* value.v holds the u32s given
IntoV(T, value) ==
    CASE value.from = "u32" /\ T = "Range32" -> Range32Singleton(value.v[1])
      [] value.from = "u32" /\ T = "Set32" -> Set32Singleton(value.v[1])
      [] value.from = "(u32, u32)" -> Range32New(value.v[1], value.v[2])
      [] value.from = "&[u32]" -> Set32New(value.v)

\* a put that also adds the id to the posting set of its label
put_raw_and_index(d, id, data, value) ==
    merge_cf(merge_cf(d, "by_id", make_key(id, data), into(V, IntoV(V, value))),
             "index", data, Set64Into(Set64Singleton(id)))

put_raw(d, id, data, value) ==
    merge_cf(d, "by_id", make_key(id, data), into(V, IntoV(V, value)))

put(d, id, data, value) == put_raw(d, id, data, value)

\* WriteBatch::merge_cf for each entry of the batch, in its order
RECURSIVE BatchOf(_)
BatchOf(batch) ==
    IF batch = <<>> THEN <<>>
    ELSE <<<<make_key(Head(batch)[1], Head(batch)[2]),
             into(V, IntoV(V, Head(batch)[3]))>>>> \o BatchOf(Tail(batch))

RECURSIVE WriteLastOnly(_, _)
WriteLastOnly(d, wb) ==
    IF wb = <<>> THEN d
    ELSE IF \E i \in 2..Len(wb) : wb[i][1] = wb[1][1] THEN WriteLastOnly(d, Tail(wb))
    ELSE WriteLastOnly(merge_cf(d, "by_id", Head(wb)[1], Head(wb)[2]), Tail(wb))

\* DB::write: the batch's merges applied in order, as one atomic write
RECURSIVE Write(_, _)
Write(d, wb) ==
    IF wb = <<>> THEN d
    ELSE Write(merge_cf(d, "by_id", Head(wb)[1], Head(wb)[2]), Tail(wb))

put_raw_batch(d, batch) == Write(d, BatchOf(batch))

put_batch(d, batch) == Write(d, BatchOf(batch))

----------------------------------------------------------------------------
(* The secondary index. *)

\* a key that is not in the index taken for a failure
search_raw_absent_fails(d, data, case_sensitivity) ==
    LET key == make_index_key(data, case_sensitivity)
    IN  IF ~key.ok THEN key
        ELSE LET bytes == CfGet(d, "index", key.val)
             IN  IF Len(bytes) = 0 THEN Err("NotFound") ELSE Set64TryFrom(bytes[1])

search_raw(d, data, case_sensitivity) ==
    LET key == make_index_key(data, case_sensitivity)
    IN  IF ~key.ok THEN key
        ELSE LET bytes == CfGet(d, "index", key.val)
             IN  IF Len(bytes) = 0 THEN Ok(<<>>) ELSE Set64TryFrom(bytes[1])

search(d, data) == search_raw(d, data, Sensitive)

search_ci(d, data) == search_raw(d, to_lowercase(data), Insensitive)

\* the for loop of make_index over the iterator's entries: the database after
\* the merges made, and the result
RECURSIVE MakeIndexLoop(_, _, _)
MakeIndexLoop(d, entries, case_sensitivity) ==
    IF entries = <<>> THEN [db |-> d, result |-> Ok(<<>>)]
    ELSE LET id == DecodeId(Head(entries)[1])
         IN  IF ~id.ok THEN [db |-> d, result |-> id]
             ELSE LET index_key == make_index_key(KeyData(Head(entries)[1]), case_sensitivity)
                      id_bytes == Set64Into(Set64Singleton(id.val))
                  IN  IF ~index_key.ok THEN [db |-> d, result |-> index_key]
                      ELSE MakeIndexLoop(merge_cf(d, "index", index_key.val, id_bytes),
                                         Tail(entries), case_sensitivity)

make_index(d, case_sensitivity) ==
    MakeIndexLoop(d, Iterator(d, "by_id"), case_sensitivity)

----------------------------------------------------------------------------
(* The inputs of the model. *)

\* two ids that are neighbours in numeric order, whose encodings share their
\* first six bytes and whose low bytes are in the opposite order
Ids == {255, 256}

\* "A" and "a"
Utf8Labels == {<<65>>, <<97>>}

\* the labels of put_raw: also "a" followed by 0xFF, which is not UTF-8
RawLabels == Utf8Labels \cup {<<97, 255>>}

Times == {1, 256}

\* what put is given as its value, for a store of V
PutValues(T) ==
    [from : {"u32"}, v : {<<t>> : t \in Times}]
        \cup (IF T = "Range32" THEN {[from |-> "(u32, u32)", v |-> <<255, 256>>]}
              ELSE {[from |-> "&[u32]", v |-> <<256, 1, 256>>]})

RECURSIVE SeqsUpTo(_, _)
SeqsUpTo(S, n) ==
    IF n = 0 THEN {<<>>}
    ELSE LET shorter == SeqsUpTo(S, n - 1)
         IN  shorter \cup {Append(q, x) : q \in {r \in shorter : Len(r) = n - 1}, x \in S}

\* the batches of put_batch (UTF-8 labels) and of put_raw_batch, of u32 values
Batches(labels, n) ==
    SeqsUpTo(Ids \X labels \X {value \in PutValues(V) : value.from = "u32"}, n) \ {<<>>}

CasePolicies == {Sensitive, Insensitive}

AlgIdle == [T |-> "none"]

----------------------------------------------------------------------------
(* The store as a state machine: the calls that write, and the merging     *)
(* RocksDB does on its own.                                                *)

InitStore ==
    /\ V \in {"Range32", "Set32"}
    /\ db = EmptyDb
    /\ written = {}
    /\ indexed = [cs \in CasePolicies |-> "never"]
    /\ nwrites = 0
    /\ nindex = 0
    /\ lastBatch = 0

\* the history of a call that writes the entries of `batch` to the primary namespace
Wrote(batch) ==
    /\ written' = written \cup {<<batch[i][1], batch[i][2], IntoV(V, batch[i][3])>> :
                                   i \in 1..Len(batch)}
    /\ nwrites' = nwrites + Len(batch)
    /\ indexed' = [cs \in CasePolicies |-> IF indexed[cs] = "never" THEN "never" ELSE "ran"]
    /\ lastBatch' = Len(batch)
    /\ UNCHANGED <<V, nindex, alg>>

Put(id, data, value) ==
    /\ nwrites < MaxWrites
    /\ db' = put(db, id, data, value)
    /\ Wrote(<<<<id, data, value>>>>)

PutRaw(id, data, value) ==
    /\ nwrites < MaxWrites
    /\ db' = put_raw(db, id, data, value)
    /\ Wrote(<<<<id, data, value>>>>)

PutBatch(batch) ==
    /\ nwrites + Len(batch) <= MaxWrites
    /\ db' = put_batch(db, batch)
    /\ Wrote(batch)

PutRawBatch(batch) ==
    /\ nwrites + Len(batch) <= MaxWrites
    /\ db' = put_raw_batch(db, batch)
    /\ Wrote(batch)

\* RocksDB merges a run of neighbouring operands of a key into one operand
\* (a partial merge: the merge operator is called without an existing value)
PartialMerge(cf, key, i, j) ==
    LET e == db[cf][key]
        merged == merge_operator(cf, key, None, SubSeq(e.ops, i, j))
    IN  /\ Len(merged) > 0
        /\ db' = [db EXCEPT ![cf][key].ops =
                      SubSeq(e.ops, 1, i - 1) \o <<merged[1]>> \o SubSeq(e.ops, j + 1, Len(e.ops))]
        /\ UNCHANGED <<V, written, indexed, nwrites, nindex, lastBatch, alg>>

\* RocksDB merges the oldest j operands of a key into the value below them
\* (a full merge: the merge operator is called with the existing value, if any)
FullMerge(cf, key, j) ==
    LET e == db[cf][key]
        merged == merge_operator(cf, key, e.base, SubSeq(e.ops, 1, j))
    IN  /\ Len(merged) > 0
        /\ db' = [db EXCEPT ![cf][key] =
                      [base |-> merged, ops |-> SubSeq(e.ops, j + 1, Len(e.ops))]]
        /\ UNCHANGED <<V, written, indexed, nwrites, nindex, lastBatch, alg>>

CompactPartial(cf) ==
    \E key \in CfKeys(db, cf) :
        \E i \in 1..Len(db[cf][key].ops), j \in 1..Len(db[cf][key].ops) :
            i < j /\ PartialMerge(cf, key, i, j)

CompactFull(cf) ==
    \E key \in CfKeys(db, cf) : \E j \in 1..Len(db[cf][key].ops) : FullMerge(cf, key, j)

Init == InitStore /\ alg = AlgIdle

Next ==
    \/ \E id \in Ids, data \in Utf8Labels, value \in PutValues(V) : Put(id, data, value)
    \/ \E id \in Ids, data \in RawLabels, value \in PutValues(V) : PutRaw(id, data, value)
    \/ \E batch \in Batches(Utf8Labels, Min(MaxBatch, MaxWrites - nwrites)) : PutBatch(batch)
    \/ \E batch \in Batches(RawLabels, Min(MaxBatch, MaxWrites - nwrites)) : PutRawBatch(batch)
    \/ CompactPartial("by_id")
    \/ CompactFull("by_id")

Spec == Init /\ [][Next]_vars

----------------------------------------------------------------------------
(* What the store is expected to hold, from the history of the puts. *)

WrittenIds == {w[1] : w \in written}

WrittenLabels(id) == {w[2] : w \in {x \in written : x[1] = id}}

WrittenTo(id, label) == {w[3] : w \in {x \in written : x[1] = id /\ x[2] = label}}

\* the elements of the finite set of numbers E in ascending order
Ascending(E) ==
    CHOOSE q \in [1..Cardinality(E) -> E] : \A i, j \in 1..Cardinality(E) : i < j => q[i] < q[j]

\* the fold of the values S of type T: the least first and the greatest last of
\* the ranges, the sorted union of the sets
Fold(T, S) ==
    IF T = "Range32"
    THEN [first |-> CHOOSE f \in {r.first : r \in S} : \A r \in S : f <= r.first,
          last |-> CHOOSE l \in {r.last : r \in S} : \A r \in S : l >= r.last]
    ELSE Ascending(UNION {{q[i] : i \in 1..Len(q)} : q \in S})

\* get(id) where put wrote every label of the id, get_raw(id) where put_raw wrote
\* a label that is not UTF-8
Lookup(id) ==
    IF \A label \in WrittenLabels(id) : IsUtf8(label) THEN get(db, id) ELSE get_raw(db, id)

----------------------------------------------------------------------------
(* C1: whatever the order in which the operands of one (id, label) were    *)
(* written and however RocksDB has grouped them into partial and full      *)
(* merges so far, get(id)[label] is the fold of all the operands written:  *)
(* (least first, greatest last) for Range32, the sorted union for Set32.   *)

C1_Convergence ==
    \A id \in WrittenIds :
        LET got == Lookup(id)
        IN  \A label \in WrittenLabels(id) :
                /\ got.ok
                /\ label \in DOMAIN got.val
                /\ got.val[label] = Fold(V, WrittenTo(id, label))

\* three different operands went to one key; merges have left a stored value,
\* which is a merge's output, and one pending operand that differs from it
C1_Witness ==
    \E key \in CfKeys(db, "by_id") :
        /\ nwrites = 3
        /\ Cardinality(WrittenTo(DecodeId(key).val, KeyData(key))) = 3
        /\ Len(db.by_id[key].base) = 1
        /\ Len(db.by_id[key].ops) = 1
        /\ db.by_id[key].base[1] # db.by_id[key].ops[1]

----------------------------------------------------------------------------
(* C3: after any sequence of put calls, get(id) is a mapping with exactly  *)
(* one entry per label written under id, each the fold of the values       *)
(* written to that (id, label); it is the empty mapping, not an error,     *)
(* when nothing was written under id.                                      *)

C3_Aggregation ==
    \A id \in Ids :
        (\A label \in WrittenLabels(id) : IsUtf8(label)) =>
            LET got == get(db, id)
            IN  /\ got.ok
                /\ DOMAIN got.val = WrittenLabels(id)
                /\ \A label \in WrittenLabels(id) :
                       got.val[label] = Fold(V, WrittenTo(id, label))

\* one id holds two labels, one of them written twice with different values,
\* and nothing was written under the other id
C3_Witness ==
    /\ nwrites = 3
    /\ WrittenLabels(255) = {}
    /\ WrittenLabels(256) = Utf8Labels
    /\ Cardinality(WrittenTo(256, <<97>>)) = 2
    /\ get(db, 255) = Ok(<<>>)
    /\ DOMAIN get(db, 256).val = Utf8Labels

----------------------------------------------------------------------------
(* C4: a label written only under id A is in neither get(B) nor get_raw(B) *)
(* for B # A, also for ids that are neighbours and share leading bytes.    *)

C4_Isolation ==
    \A A \in Ids, B \in Ids :
        A # B =>
            LET raw == get_raw(db, B)
                got == get(db, B)
            IN  \A label \in WrittenLabels(A) \ WrittenLabels(B) :
                    /\ raw.ok /\ label \notin DOMAIN raw.val
                    /\ got.ok => label \notin DOMAIN got.val

\* the two ids hold different labels, and each get_raw shows its own
C4_Witness ==
    /\ WrittenLabels(255) = {<<97>>}
    /\ WrittenLabels(256) = {<<65>>, <<97, 255>>}
    /\ DOMAIN get_raw(db, 255).val = {<<97>>}
    /\ DOMAIN get_raw(db, 256).val = {<<65>>, <<97, 255>>}

----------------------------------------------------------------------------
(* C8: a batch handed to put_batch / put_raw_batch leaves the primary      *)
(* namespace, as get and iter show it, as the same entries put one by one  *)
(* do, whatever the store held before and also when the batch has several  *)
(* entries for one (id, label).                                            *)

RECURSIVE PutEach(_, _)
PutEach(d, batch) ==
    IF batch = <<>> THEN d
    ELSE PutEach(put(d, Head(batch)[1], Head(batch)[2], Head(batch)[3]), Tail(batch))

\* what get_raw and iter_raw show; get and iter are computed from these
PrimaryView(d) == [get_raw |-> [id \in Ids |-> get_raw(d, id)], iter_raw |-> iter_raw(d)]

C8_BatchEquivalence ==
    \A batch \in Batches(RawLabels, Min(MaxBatch, MaxWrites - nwrites)) :
        LET each == PrimaryView(PutEach(db, batch))
        IN  /\ PrimaryView(put_raw_batch(db, batch)) = each
            /\ (\A i \in 1..Len(batch) : batch[i][2] \in Utf8Labels) =>
                   PrimaryView(put_batch(db, batch)) = each

\* a batch of two entries has just been written, both entries to one key and
\* with different values, onto a store that held an entry already
C8_Witness ==
    /\ nwrites = 3
    /\ lastBatch = 2
    /\ \E key \in CfKeys(db, "by_id") :
           /\ Len(db.by_id[key].ops) >= 2
           /\ LET ops == db.by_id[key].ops
              IN  ops[Len(ops) - 1] # ops[Len(ops)]

----------------------------------------------------------------------------
(* C9: get_counts() is (the number of ids with an entry, the number of     *)
(* (id, label) pairs written); a put to a pair that exists changes neither. *)

C9_Counts ==
    get_counts(db) =
        Ok(<<Cardinality(WrittenIds), Cardinality({<<w[1], w[2]>> : w \in written})>>)

\* three different operands in two entries of one id: one entry was put twice
C9_Witness ==
    /\ nwrites = 3
    /\ Cardinality(written) = 3
    /\ get_counts(db) = Ok(<<1, 2>>)

----------------------------------------------------------------------------
(* C10: iter_raw() / iter() yields each stored (id, label) once with its   *)
(* aggregated value, by id ascending in numeric order and, within an id,   *)
(* by label ascending in byte order, whatever the order of the writes.     *)

C10_IterOrder ==
    LET items == iter_raw(db)
        pairs == {<<w[1], w[2]>> : w \in written}
    IN  /\ Len(items) = Cardinality(pairs)
        /\ \A i \in 1..Len(items) :
               /\ items[i].ok
               /\ <<items[i].val[1], items[i].val[2]>> \in pairs
               /\ items[i].val[3] = Fold(V, WrittenTo(items[i].val[1], items[i].val[2]))
        /\ \A i, j \in 1..Len(items) :
               i < j => \/ items[i].val[1] < items[j].val[1]
                        \/ /\ items[i].val[1] = items[j].val[1]
                           /\ BytesLess(items[i].val[2], items[j].val[2])
        /\ (\A p \in pairs : IsUtf8(p[2])) => iter(db) = items

\* id 255 with a label and a longer label that starts with it, then id 256 with
\* a label that is below both in byte order
C10_Witness ==
    LET items == iter_raw(db)
    IN  /\ Len(items) = 3
        /\ items[1].val[1] = 255 /\ items[1].val[2] = <<97>>
        /\ items[2].val[1] = 255 /\ items[2].val[2] = <<97, 255>>
        /\ items[3].val[1] = 256 /\ items[3].val[2] = <<65>>

----------------------------------------------------------------------------
(* C19: along the calls of the public API on a store of one value type, an *)
(* (id, label) that exists never disappears and its value only grows: the  *)
(* first of a Range32 never increases and its last never decreases, a      *)
(* later Set32 holds every number of an earlier one.                       *)

\* the number of operands written in one run of the store whose steps are compared
MaxGrowthWrites == 2

\* the calls of the store and the merges of RocksDB, up to MaxGrowthWrites operands
NextGrowth ==
    \/ \E id \in Ids, data \in Utf8Labels, value \in PutValues(V) :
           nwrites < MaxGrowthWrites /\ Put(id, data, value)
    \/ \E id \in Ids, data \in RawLabels, value \in PutValues(V) :
           nwrites < MaxGrowthWrites /\ PutRaw(id, data, value)
    \/ \E batch \in Batches(Utf8Labels, Min(MaxBatch, MaxGrowthWrites - nwrites)) :
           PutBatch(batch)
    \/ \E batch \in Batches(RawLabels, Min(MaxBatch, MaxGrowthWrites - nwrites)) :
           PutRawBatch(batch)
    \/ CompactPartial("by_id")
    \/ CompactFull("by_id")

SpecGrowth == Init /\ [][NextGrowth]_vars

Grows(T, old, new) ==
    IF T = "Range32" THEN new.first <= old.first /\ new.last >= old.last
    ELSE \A i \in 1..Len(old) : \E j \in 1..Len(new) : new[j] = old[i]

C19_MonotoneGrowth ==
    [][\A id \in Ids :
           LET before == get_raw(db, id)
               after == get_raw(db', id)
           IN  /\ after.ok
               /\ \A label \in DOMAIN before.val :
                      /\ label \in DOMAIN after.val
                      /\ Grows(V, before.val[label], after.val[label])]_vars

\* an entry that was put as the range (256, 256) and then as (1, 1)
C19_Witness ==
    /\ V = "Range32"
    /\ nwrites = 2
    /\ written = {<<256, <<65>>, Range32New(256, 256)>>, <<256, <<65>>, Range32New(1, 1)>>}
    /\ db.by_id[make_key(256, <<65>>)].ops[2] = Range32Into(Range32New(1, 1))
    /\ get_raw(db, 256) = Ok(<<65>> :> Range32New(1, 256))

----------------------------------------------------------------------------
(* The store with its index: puts of one value, make_index with either     *)
(* case policy, and the merging RocksDB does in the index column family.   *)

MakeIndex(case_sensitivity) ==
    LET made == make_index(db, case_sensitivity)
    IN  /\ nindex < MaxIndexRuns
        /\ db' = made.db
        /\ indexed' = [indexed EXCEPT ![case_sensitivity] =
                           IF made.result.ok THEN "fresh" ELSE "ran"]
        /\ nindex' = nindex + 1
        /\ UNCHANGED <<V, written, nwrites, lastBatch, alg>>

IndexedValue == [from |-> "u32", v |-> <<1>>]

InitIndex == InitStore /\ V = "Set32" /\ alg = AlgIdle

NextIndex ==
    \/ \E id \in Ids, data \in Utf8Labels :
           nwrites < MaxIndexedWrites /\ Put(id, data, IndexedValue)
    \/ \E id \in Ids, data \in RawLabels :
           nwrites < MaxIndexedWrites /\ PutRaw(id, data, IndexedValue)
    \/ \E case_sensitivity \in CasePolicies : MakeIndex(case_sensitivity)
    \/ CompactPartial("index")
    \/ CompactFull("index")

SpecIndex == InitIndex /\ [][NextIndex]_vars

\* the byte strings searched for: the labels, "b" and "AB"
Queries == RawLabels \cup {<<98>>, <<65, 66>>}

\* what search_raw(k, cs) is to return: the ids with an entry whose index key
\* under cs is k, in ascending order
Posting(k, cs) ==
    Ascending({id \in WrittenIds :
                  \E label \in WrittenLabels(id) : make_index_key(label, cs) = Ok(k)})

\* the ids with an entry labelled q, in ascending order
IdsLabelled(q) == Ascending({id \in WrittenIds : q \in WrittenLabels(id)})

\* the ids with an entry whose label is q up to the case of its letters
IdsLabelledIgnoringCase(q) ==
    Ascending({id \in WrittenIds :
                  \E label \in WrittenLabels(id) :
                      IsUtf8(label) /\ to_lowercase(label) = to_lowercase(q)})

----------------------------------------------------------------------------
(* C5: right after make_index(cs) has completed on a store on which        *)
(* make_index with the other policy never ran, search_raw(k, cs) is, for   *)
(* every search key k, the ascending list of the ids with an entry whose   *)
(* index key under cs is k; a case-sensitive search leaves out the ids     *)
(* whose label differs from the query in case only, a case-insensitive     *)
(* search has them.  A search key under cs is the index key of a byte      *)
(* string under cs; search_raw takes the index key of what it is given.    *)

C5_IndexBuild ==
    \A cs \in CasePolicies :
        indexed[cs] = "fresh" /\ (\A other \in CasePolicies \ {cs} : indexed[other] = "never") =>
            \A q \in Queries :
                LET k == make_index_key(q, cs)
                IN  k.ok =>
                        /\ search_raw(db, k.val, cs) = Ok(Posting(k.val, cs))
                        /\ search_raw(db, q, cs) = Ok(Posting(k.val, cs))
                        /\ cs = Sensitive => search(db, q) = Ok(IdsLabelled(q))
                        /\ cs = Insensitive => search_ci(db, q) = Ok(IdsLabelledIgnoringCase(q))

\* "a" under one id and "A" under the other, indexed without regard to case:
\* the search for either has both ids
C5_Witness ==
    /\ indexed = [cs \in CasePolicies |-> IF cs = Insensitive THEN "fresh" ELSE "never"]
    /\ WrittenLabels(255) = {<<65>>}
    /\ WrittenLabels(256) = {<<97>>}
    /\ search_ci(db, <<65>>) = Ok(<<255, 256>>)
    /\ search_raw(db, <<97>>, Insensitive) = Ok(<<255, 256>>)

----------------------------------------------------------------------------
(* C6: after make_index(Sensitive) and make_index(Insensitive) have both   *)
(* completed on the store, in either order, search(label) is the ids with  *)
(* an entry of exactly that label, and search_ci(label) the ids with an    *)
(* entry whose label is that label up to case: neither index's postings    *)
(* show up in the other's lookups.                                         *)

C6_NoCollision ==
    (\A cs \in CasePolicies : indexed[cs] = "fresh") =>
        \A q \in Queries :
            /\ search(db, q) = Ok(IdsLabelled(q))
            /\ IsUtf8(q) => search_ci(db, q) = Ok(IdsLabelledIgnoringCase(q))

----------------------------------------------------------------------------
(* C7: with no write to the primary namespace since make_index(cs)         *)
(* completed, another make_index(cs) leaves every posting set as it was.   *)

PostingSets(d) ==
    [key \in CfKeys(d, "index") |->
        LET bytes == CfGet(d, "index", key)
        IN  IF Len(bytes) = 0 THEN Ok(<<>>) ELSE Set64TryFrom(bytes[1])]

C7_MakeIndexIdempotent ==
    [][\A cs \in CasePolicies :
           (indexed[cs] = "fresh" /\ nindex' = nindex + 1 /\ db' = make_index(db, cs).db)
               => PostingSets(db') = PostingSets(db)]_vars

\* two ids hold "a"; the case-sensitive index was built twice after the writes,
\* which left four operands for the key "a", and the search has each id once
C7_Witness ==
    /\ nwrites = 2
    /\ nindex = 2
    /\ indexed[Sensitive] = "fresh"
    /\ indexed[Insensitive] = "never"
    /\ <<97>> \in CfKeys(db, "index")
    /\ Len(db.index[<<97>>].ops) = 4
    /\ search(db, <<97>>) = Ok(<<255, 256>>)

----------------------------------------------------------------------------
(* C13: in every state of the store, search, search_raw and search_ci of a *)
(* search key that has no posting set, because the label was never indexed *)
(* or no index was built, return the empty sequence and not an error.  A   *)
(* byte string that is not UTF-8 has no search key under the insensitive   *)
(* policy.                                                                 *)

C13_EmptyLookup ==
    \A q \in Queries, cs \in CasePolicies :
        LET k == make_index_key(q, cs)
        IN  k.ok /\ k.val \notin CfKeys(db, "index") =>
                /\ search_raw(db, q, cs) = Ok(<<>>)
                /\ cs = Sensitive /\ IsUtf8(q) => search(db, q) = Ok(<<>>)
                /\ cs = Insensitive => search_ci(db, q) = Ok(<<>>)

\* "A" was indexed, and "a" was put after the index was built: the index
\* holds a posting set, and none for "a" or for a label never put
C13_Witness ==
    /\ indexed[Sensitive] = "ran"
    /\ indexed[Insensitive] = "never"
    /\ WrittenLabels(255) = {<<65>>}
    /\ WrittenLabels(256) = {<<97>>}
    /\ CfKeys(db, "index") = {<<65>>}
    /\ search(db, <<97>>) = Ok(<<>>)
    /\ search_ci(db, <<98>>) = Ok(<<>>)

----------------------------------------------------------------------------
(* C20: search_ci gives the same for two queries that are equal in lower   *)
(* case, in every state of the store; right after make_index(Insensitive)  *)
(* it gives the ids with a label that is, in lower case, the query in      *)
(* lower case.                                                             *)

\* "A", "a", "B", "b", "AB", "Ab", "aB", "ab"
CasedQueries ==
    {<<65>>, <<97>>, <<66>>, <<98>>, <<65, 66>>, <<65, 98>>, <<97, 66>>, <<97, 98>>}

C20_QueryCaseInsensitive ==
    \A q1 \in CasedQueries, q2 \in CasedQueries :
        to_lowercase(q1) = to_lowercase(q2) =>
            /\ search_ci(db, q1) = search_ci(db, q2)
            /\ indexed[Insensitive] = "fresh" =>
                   search_ci(db, q1) = Ok(IdsLabelledIgnoringCase(q1))

\* "A" under one id and "a" under the other, and both indexes built, the
\* insensitive one last: search_ci of "A" and of "a" have both ids
C20_Witness ==
    /\ indexed = [cs \in CasePolicies |-> "fresh"]
    /\ nindex = 2
    /\ WrittenLabels(255) = {<<97>>}
    /\ WrittenLabels(256) = {<<65>>}
    /\ Len(db.index[<<97>>].ops) = 3
    /\ search_ci(db, <<65>>) = Ok(<<255, 256>>)
    /\ search_ci(db, <<97>>) = Ok(<<255, 256>>)

----------------------------------------------------------------------------
(* The value algebra on its own: three operands of one type are drawn, and *)
(* Combine evaluates the Add of the type on them.                          *)

Numbers == {1, 255, 256}

Range32Values == {Range32New(f, l) : f \in Numbers, l \in Numbers}

\* the sequences the set types can hold: they are sorted and without repeats
\* when made by new or by Add, and any sequence when decoded from bytes
SetValues == SeqsUpTo(Numbers, MaxSetLen)

AlgValues(T) == IF T = "Range32" THEN Range32Values ELSE SetValues

InitAlgebra ==
    /\ V = "Range32"
    /\ db = EmptyDb
    /\ written = {}
    /\ indexed = [cs \in CasePolicies |-> "never"]
    /\ nwrites = 0
    /\ nindex = 0
    /\ lastBatch = 0
    /\ \E T \in {"Range32", "Set32", "Set64"} :
           \E a \in AlgValues(T), b \in AlgValues(T), c \in AlgValues(T) :
               alg = [T |-> T, a |-> a, b |-> b, c |-> c, done |-> FALSE,
                      ab |-> a, ba |-> a, ab_c |-> a, a_bc |-> a, aa |-> a,
                      a_own |-> <<>>]

Combine ==
    /\ alg.T # "none"
    /\ ~alg.done
    /\ alg' = [alg EXCEPT !.done = TRUE,
                          !.ab = add(alg.T, alg.a, alg.b),
                          !.ba = add(alg.T, alg.b, alg.a),
                          !.ab_c = add(alg.T, add(alg.T, alg.a, alg.b), alg.c),
                          !.a_bc = add(alg.T, alg.a, add(alg.T, alg.b, alg.c)),
                          !.aa = add(alg.T, alg.a, alg.a),
                          !.a_own = IF alg.T = "Range32" THEN <<>>
                                    ELSE [i \in 1..Len(alg.a) |->
                                             add(alg.T, alg.a, singleton(alg.T, alg.a[i]))]]
    /\ UNCHANGED <<V, db, written, indexed, nwrites, nindex, lastBatch>>

NextAlgebra == Combine

SpecAlgebra == InitAlgebra /\ [][NextAlgebra]_vars

----------------------------------------------------------------------------
(* C2: for Range32, Set32 and Set64, Add is associative and commutative:   *)
(* (a + b) + c = a + (b + c) and a + b = b + a for all a, b, c of the type. *)

C2_AssociativeCommutative ==
    alg.T # "none" /\ alg.done => alg.ab_c = alg.a_bc /\ alg.ab = alg.ba

\* three overlapping sets given out of order
C2_Witness ==
    /\ alg.T = "Set64"
    /\ alg.done
    /\ alg.a = <<256>>
    /\ alg.b = <<255, 256>>
    /\ alg.c = <<1>>
    /\ alg.ab_c = <<1, 255, 256>>

----------------------------------------------------------------------------
(* C12: for every Set32 / Set64 value s, a sorted sequence without         *)
(* repeats, s + s = s; and for every posting set p and every id x in p,    *)
(* p + singleton(x) = p.                                                   *)

\* a Bounded Set: strictly ascending
IsSortedSet(q) == \A i \in 1..(Len(q) - 1) : q[i] < q[i + 1]

C12_IdempotentUnion ==
    alg.T \in {"Set32", "Set64"} /\ alg.done /\ IsSortedSet(alg.a) =>
        /\ alg.aa = alg.a
        /\ \A i \in 1..Len(alg.a) : alg.a_own[i] = alg.a

\* a posting set of two ids, added to itself and to the singleton of each id
C12_Witness ==
    /\ alg.T = "Set64"
    /\ alg.done
    /\ alg.a = <<255, 256>>
    /\ alg.aa = <<255, 256>>
    /\ alg.a_own = <<(<<255, 256>>), (<<255, 256>>)>>

----------------------------------------------------------------------------
(* The encoding of the values on its own: a value of one type is drawn and *)
(* encoded and the bytes decoded, or a byte string is drawn and decoded.   *)

\* the longest byte string handed to the decoders
MaxBytes == 17

\* u32s of one, two, four and the most bytes that the model's integers hold
CodecNumbers == {0, 1, 255, 256, 16777216, 2147483647}

\* the values the constructors make: any pair for Range32::new, and what
\* Set32::new / Set64::new make of a slice
CodecValues(T) ==
    CASE T = "Range32" -> {Range32New(f, l) : f \in CodecNumbers, l \in CodecNumbers}
      [] T = "Set32" -> {Set32New(q) : q \in SeqsUpTo(CodecNumbers, MaxSetLen)}
      [] T = "Set64" -> {Set64New(q) : q \in SeqsUpTo(CodecNumbers, MaxSetLen)}

\* n bytes of the value b; for Set64 the four high bytes of each chunk of eight
\* are 0, which keeps the u64s decoded within the model's integers
Fill(T, n, b) ==
    [i \in 1..n |-> IF T = "Set64" /\ (i - 1) % 8 < 4 THEN 0 ELSE b]

\* byte strings of every length up to MaxBytes
CodecBytes(T) == {Fill(T, n, b) : n \in 0..MaxBytes, b \in {0, 1, 127}}

\* no store is in use
StoreIdle ==
    /\ V = "Range32"
    /\ db = EmptyDb
    /\ written = {}
    /\ indexed = [cs \in CasePolicies |-> "never"]
    /\ nwrites = 0
    /\ nindex = 0
    /\ lastBatch = 0

InitCodec ==
    /\ StoreIdle
    /\ \E T \in {"Range32", "Set32", "Set64"} :
           \/ \E v \in CodecValues(T) :
                  alg = [T |-> T, given |-> "value", stage |-> "value", v |-> v,
                         bytes |-> <<>>, decoded |-> Err("none")]
           \/ \E bytes \in CodecBytes(T) :
                  alg = [T |-> T, given |-> "bytes", stage |-> "bytes", v |-> <<>>,
                         bytes |-> bytes, decoded |-> Err("none")]

\* Vec::<u8>::from(value)
Encode ==
    /\ alg.stage = "value"
    /\ alg' = [alg EXCEPT !.stage = "bytes", !.bytes = into(alg.T, alg.v)]
    /\ UNCHANGED <<V, db, written, indexed, nwrites, nindex, lastBatch>>

\* T::try_from(bytes)
Decode ==
    /\ alg.stage = "bytes"
    /\ alg' = [alg EXCEPT !.stage = "decoded", !.decoded = prepare(alg.T, alg.bytes)]
    /\ UNCHANGED <<V, db, written, indexed, nwrites, nindex, lastBatch>>

NextCodec == Encode \/ Decode

SpecCodec == InitCodec /\ [][NextCodec]_vars

----------------------------------------------------------------------------
(* C11: for every value v of Range32, Set32 and Set64, the sets sorted and *)
(* without repeats, decoding the encoding of v gives v.                    *)

C11_RoundTrip ==
    alg.given = "value" /\ alg.stage = "decoded" => alg.decoded = Ok(alg.v)

\* a set of two numbers of one and of four bytes went through its eight bytes
C11_Witness ==
    /\ alg.T = "Set32"
    /\ alg.given = "value"
    /\ alg.stage = "decoded"
    /\ alg.v = <<255, 16777216>>
    /\ alg.bytes = <<0, 0, 0, 255, 1, 0, 0, 0>>
    /\ alg.decoded.ok

----------------------------------------------------------------------------
(* C14: decoding fails, with InvalidValue, exactly when the length of the  *)
(* bytes does not fit the layout: a length other than 8 for Range32, not a *)
(* multiple of 4 for Set32, not a multiple of 8 for Set64.                 *)

C14_DecodeLength ==
    alg.stage = "decoded" =>
        LET n == Len(alg.bytes)
            fits == CASE alg.T = "Range32" -> n = 8
                      [] alg.T = "Set32" -> n % 4 = 0
                      [] alg.T = "Set64" -> n % 8 = 0
        IN  /\ alg.decoded.ok <=> fits
            /\ ~alg.decoded.ok => alg.decoded.err = "InvalidValue"

\* twelve bytes: three numbers for Set32, a failure for Range32 and for Set64
C14_Witness ==
    /\ alg.stage = "decoded"
    /\ alg.given = "bytes"
    /\ Len(alg.bytes) = 12
    /\ alg.T = "Set64"
    /\ alg.decoded = Err("InvalidValue")

----------------------------------------------------------------------------
(* The merge callbacks on their own: RocksDB calls the merge operator of a *)
(* column family with an existing value, or none, and a run of operands,   *)
(* of any bytes the column family may hold.                                *)

\* the most operands handed to one call of a merge operator
MaxOperands == 2

\* byte strings of 0, 1, 4 and 8 bytes: the 8 bytes decode as each of the
\* types, the 4 bytes as Set32 only, no bytes as the sets, 1 byte as none
MergeBytes ==
    {<<>>, <<1>>, to_be_bytes(256, Width32), to_be_bytes(255, Width64), to_be_bytes(256, Width64)}

\* the type whose merge the merge operator of the column family alg.cf calls
MergedType == IF alg.cf = "by_id" THEN V ELSE "Set64"

InitMerge ==
    /\ V \in {"Range32", "Set32"}
    /\ db = EmptyDb
    /\ written = {}
    /\ indexed = [cs \in CasePolicies |-> "never"]
    /\ nwrites = 0
    /\ nindex = 0
    /\ lastBatch = 0
    /\ \E cf \in {"by_id", "index"} :
           \E existing \in {None} \cup {Some(b) : b \in MergeBytes},
              operands \in SeqsUpTo(MergeBytes, MaxOperands) :
               alg = [cf |-> cf, existing |-> existing, operands |-> operands, done |-> FALSE,
                      result |-> [ok |-> TRUE, out |-> None, err |-> "none"],
                      returned |-> None]

\* one call of the merge operator: what Value::merge returns, and what the
\* callback hands back to RocksDB
MergeCall ==
    /\ ~alg.done
    /\ alg' = [alg EXCEPT !.done = TRUE,
                          !.result = merge(MergedType, alg.existing, alg.operands),
                          !.returned = merge_operator(alg.cf, <<>>, alg.existing, alg.operands)]
    /\ UNCHANGED <<V, db, written, indexed, nwrites, nindex, lastBatch>>

NextMerge == MergeCall

SpecMerge == InitMerge /\ [][NextMerge]_vars

----------------------------------------------------------------------------
(* C15: when Value::merge meets bytes that do not decode, in the existing  *)
(* value or in an operand at any position, the fallback that comes with    *)
(* the error is the encoding of the last value aggregated successfully,    *)
(* or, when nothing was aggregated yet, the raw bytes of the last operand. *)

\* the left fold with Add of the values that the byte strings `good` decode to
RECURSIVE AggregateOf(_, _)
AggregateOf(T, good) ==
    IF Len(good) = 1 THEN prepare(T, good[1]).val
    ELSE add(T, AggregateOf(T, SubSeq(good, 1, Len(good) - 1)), prepare(T, good[Len(good)]).val)

C15_Fallback ==
    alg.done /\ ~alg.result.ok =>
        LET T == MergedType
            inputs == alg.existing \o alg.operands
            firstBad == CHOOSE i \in 1..Len(inputs) :
                            /\ ~prepare(T, inputs[i]).ok
                            /\ \A j \in 1..(i - 1) : prepare(T, inputs[j]).ok
            good == SubSeq(inputs, 1, firstBad - 1)
        IN  IF good # <<>>
            THEN alg.result.out = Some(into(T, AggregateOf(T, good)))
            ELSE alg.operands # <<>> =>
                     alg.result.out = Some(alg.operands[Len(alg.operands)])

----------------------------------------------------------------------------
(* C16: a call of merge_by_id or of merge_index with an existing value or  *)
(* with at least one operand returns Some(bytes) and never None, also when *)
(* an input does not decode.                                               *)

C16_AlwaysSome ==
    alg.done /\ (alg.existing # None \/ alg.operands # <<>>) => Len(alg.returned) = 1

----------------------------------------------------------------------------
(* A store opened on a database that exists: Hkvdb::new opens whatever the *)
(* directory holds, and the by_id column family may hold keys and values   *)
(* that this store's put would not have written.                           *)

\* the number of entries put after the store was opened
MaxOpenedWrites == 1

\* a key of one byte, shorter than the id field, and three keys of entries
OpenedKeys ==
    {<<1>>, make_key(255, <<97>>), make_key(255, <<97, 255>>), make_key(256, <<65>>)}

\* eight bytes, which decode as a Range32 and as a Set32, and one byte, which
\* decodes as neither
OpenedValues == {to_be_bytes(1, Width32) \o to_be_bytes(256, Width32), <<1>>}

InitOpened ==
    /\ V \in {"Range32", "Set32"}
    /\ \E keys \in SUBSET OpenedKeys :
           \E held \in [keys -> OpenedValues] :
               db = [by_id |-> [key \in keys |-> [base |-> Some(held[key]), ops |-> <<>>]],
                     index |-> <<>>]
    /\ written = {}
    /\ indexed = [cs \in CasePolicies |-> "never"]
    /\ nwrites = 0
    /\ nindex = 0
    /\ lastBatch = 0
    /\ alg = AlgIdle

NextOpened ==
    \/ \E id \in Ids, data \in RawLabels, value \in PutValues(V) :
           nwrites < MaxOpenedWrites /\ PutRaw(id, data, value)
    \/ CompactFull("by_id")

SpecOpened == InitOpened /\ [][NextOpened]_vars

----------------------------------------------------------------------------
(* C17: if the primary namespace holds a key shorter than the 8 bytes of   *)
(* the id, then get_counts, get_raw, iter_raw and make_index report it as  *)
(* the error InvalidKey, and none of them panics.                          *)

C17_InvalidKeyReported ==
    LET entries == Iterator(db, "by_id")
        short == {i \in 1..Len(entries) : Len(entries[i][1]) < 8}
    IN  short # {} =>
            /\ get_counts(db) = Err("InvalidKey")
            /\ \A i \in short : iter_raw(db)[i] = Err("InvalidKey")
            /\ make_index(db, Sensitive).result = Err("InvalidKey")
            /\ \A id \in Ids : get_raw(db, id).err # "panic"

----------------------------------------------------------------------------
(* C18: with every key of the primary namespace well-formed, iter_raw()    *)
(* and iter() have one item per entry; the item of an entry whose value    *)
(* does not decode is the error InvalidValue, that of an entry whose label *)
(* is not UTF-8 is, in iter(), the error InvalidUtf8, and the entries      *)
(* after it are yielded all the same; get(id) fails as a whole when an     *)
(* entry under id does not decode.                                         *)

C18_PerItemErrors ==
    (\A key \in CfKeys(db, "by_id") : Len(key) >= 8) =>
        LET entries == Iterator(db, "by_id")
            raw == iter_raw(db)
            items == iter(db)
            decodes == [i \in 1..Len(entries) |-> prepare(V, entries[i][2]).ok]
            utf8 == [i \in 1..Len(entries) |-> IsUtf8(KeyData(entries[i][1]))]
            id_of == [i \in 1..Len(entries) |-> FromBe(entries[i][1], 1, 8)]
        IN  /\ Len(raw) = Len(entries)
            /\ Len(items) = Len(entries)
            /\ \A i \in 1..Len(entries) :
                   /\ ~decodes[i] =>
                          raw[i] = Err("InvalidValue") /\ items[i] = Err("InvalidValue")
                   /\ decodes[i] =>
                          raw[i] = Ok(<<id_of[i], KeyData(entries[i][1]),
                                        prepare(V, entries[i][2]).val>>)
                   /\ decodes[i] /\ ~utf8[i] => items[i] = Err("InvalidUtf8")
                   /\ decodes[i] /\ utf8[i] => items[i] = raw[i]
            /\ \A id \in Ids :
                   /\ (\E i \in 1..Len(entries) : id_of[i] = id /\ ~decodes[i]) =>
                          get_raw(db, id) = Err("InvalidValue") /\ ~get(db, id).ok
                   /\ (\E i \in 1..Len(entries) : id_of[i] = id /\ ~utf8[i]) =>
                          ~get(db, id).ok

\* three entries: the value of the first does not decode, the label of the
\* second is not UTF-8, and the third, put after the store was opened, is
\* yielded after both
C18_Witness ==
    LET raw == iter_raw(db)
        items == iter(db)
    IN  /\ Len(raw) = 3
        /\ WrittenLabels(256) = {<<65>>}
        /\ make_key(256, <<65>>) \in CfKeys(db, "by_id")
        /\ db.by_id[make_key(256, <<65>>)].base = None
        /\ raw[1] = Err("InvalidValue")
        /\ raw[2].ok /\ items[2] = Err("InvalidUtf8")
        /\ raw[3].ok /\ items[3].ok /\ items[3].val[1] = 256
        /\ ~get(db, 255).ok
        /\ get(db, 256).ok

----------------------------------------------------------------------------
(* A store of Set32 with its index: puts and batches of numbers and of     *)
(* slices, make_index with either case policy, and the merging RocksDB     *)
(* does in both column families.                                           *)

NextSets ==
    \/ \E id \in Ids, data \in Utf8Labels, value \in PutValues(V) :
           nwrites < MaxIndexedWrites /\ Put(id, data, value)
    \/ \E batch \in Batches(Utf8Labels, Min(MaxBatch, MaxIndexedWrites - nwrites)) :
           PutBatch(batch)
    \/ \E case_sensitivity \in CasePolicies : MakeIndex(case_sensitivity)
    \/ \E cf \in {"by_id", "index"} : CompactPartial(cf)
    \/ \E cf \in {"by_id", "index"} : CompactFull(cf)

SpecSets == InitIndex /\ [][NextSets]_vars

----------------------------------------------------------------------------
(* C21: in every state reached by put, put_batch and make_index, each      *)
(* Set32 that get and iter return and each list of ids that search returns *)
(* is strictly ascending, whatever the order and the grouping of the       *)
(* merges behind it.                                                       *)

C21_SetsAscending ==
    /\ \A id \in Ids :
           LET got == get(db, id)
           IN  got.ok /\ \A label \in DOMAIN got.val : IsSortedSet(got.val[label])
    /\ LET items == iter(db)
       IN  \A i \in 1..Len(items) : items[i].ok /\ IsSortedSet(items[i].val[3])
    /\ \A q \in Queries :
           /\ \A cs \in CasePolicies :
                  LET found == search_raw(db, q, cs)
                  IN  found.ok => IsSortedSet(found.val)
           /\ search_raw(db, q, Sensitive).ok
           /\ IsUtf8(q) =>
                  /\ search(db, q).ok /\ IsSortedSet(search(db, q).val)
                  /\ search_ci(db, q).ok /\ IsSortedSet(search_ci(db, q).val)

\* the slice (256, 1, 256) was put under id 256 and indexed, then a number
\* under id 255 and the index built again: the postings of "a" arrived as
\* 256, 255, 256
C21_Witness ==
    /\ nwrites = 2
    /\ nindex = 2
    /\ <<97>> \in CfKeys(db, "index")
    /\ LET ops == db.index[<<97>>].ops
       IN  /\ Len(ops) = 3
           /\ ops[1] = Set64Into(<<256>>)
           /\ ops[2] = Set64Into(<<255>>)
    /\ get(db, 256) = Ok(<<97>> :> <<1, 256>>)
    /\ search(db, <<97>>) = Ok(<<255, 256>>)

----------------------------------------------------------------------------
(* The store with its index and its reads: the four puts, make_index, the  *)
(* merging RocksDB does in the index, and the calls that read, each of     *)
(* which leaves what it returned in alg.                                   *)

\* the number of reads in one run
MaxReads == 1

\* the read that returned last, what it returned, and the number of reads so far
Returned(read, result, nreads) ==
    [T |-> "none", read |-> read, result |-> result, nreads |-> nreads]

\* the reads take &self and call only iterator_cf, prefix_iterator_cf and
\* get_pinned_cf of the database
Read(read, result) ==
    /\ alg.nreads < MaxReads
    /\ alg' = Returned(read, result, alg.nreads + 1)
    /\ UNCHANGED <<V, db, written, indexed, nwrites, nindex, lastBatch>>

Get(id) == Read("get", get(db, id))

Iter == Read("iter", iter(db))

GetCounts == Read("get_counts", get_counts(db))

Search(data) == Read("search", search(db, data))

SearchCi(data) == Read("search_ci", search_ci(db, data))

\* batches of the one value that the store with its index is given
IndexedBatches(labels, n) == SeqsUpTo(Ids \X labels \X {IndexedValue}, n) \ {<<>>}

NextFrame ==
    \/ \E id \in Ids, data \in Utf8Labels :
           nwrites < MaxIndexedWrites /\ Put(id, data, IndexedValue)
    \/ \E id \in Ids, data \in RawLabels :
           nwrites < MaxIndexedWrites /\ PutRaw(id, data, IndexedValue)
    \/ \E batch \in IndexedBatches(Utf8Labels, Min(MaxBatch, MaxIndexedWrites - nwrites)) :
           PutBatch(batch)
    \/ \E batch \in IndexedBatches(RawLabels, Min(MaxBatch, MaxIndexedWrites - nwrites)) :
           PutRawBatch(batch)
    \/ \E case_sensitivity \in CasePolicies : MakeIndex(case_sensitivity)
    \/ CompactPartial("index")
    \/ CompactFull("index")
    \/ \E id \in Ids : Get(id)
    \/ Iter
    \/ GetCounts
    \/ \E data \in Utf8Labels : Search(data)
    \/ \E data \in Utf8Labels : SearchCi(data)

InitFrame == InitStore /\ V = "Set32" /\ alg = Returned("none", Ok(<<>>), 0)

SpecFrame == InitFrame /\ [][NextFrame]_vars

----------------------------------------------------------------------------
(* C22: put, put_raw, put_batch and put_raw_batch leave the index          *)
(* namespace as it was, so that a search after a put returns the posting   *)
(* set of the last make_index; make_index, search, get, iter and           *)
(* get_counts leave the primary namespace as it was.                       *)

C22_Frames ==
    [][/\ nwrites' > nwrites =>
              /\ db'.index = db.index
              /\ \A q \in Queries, cs \in CasePolicies :
                     search_raw(db', q, cs) = search_raw(db, q, cs)
       /\ (nindex' > nindex \/ alg'.nreads > alg.nreads) =>
              /\ db'.by_id = db.by_id
              /\ PrimaryView(db') = PrimaryView(db)
              /\ get_counts(db') = get_counts(db)]_vars

\* "A" was put under id 255 and indexed, then put under id 256: the search
\* made after that returned the posting set of the index as it was built
C22_Witness ==
    /\ indexed[Sensitive] = "ran"
    /\ nwrites = 2
    /\ WrittenLabels(255) = {<<65>>}
    /\ WrittenLabels(256) = {<<65>>}
    /\ get_counts(db) = Ok(<<2, 2>>)
    /\ alg.read = "search"
    /\ alg.result = Ok(<<255>>)

=============================================================================
